---- MODULE Spec2Model ----
(***************************************************************************)
(* Model of each.py: run a command once per input token, substituting a   *)
(* placeholder with that token.                                            *)
(*                                                                         *)
(* Strings are sequences of Unicode code points (integers).                *)
(***************************************************************************)
EXTENDS Integers, Sequences, FiniteSets, TLC

(***************************************************************************)
(* Program constants                                                       *)
(***************************************************************************)
EXIT_OK == 0
EXIT_NO_PLACEHOLDER == 65
EXIT_BAD_ENV == 66
EXIT_NEEDS_NO_STDIN_FOR_PAR == 67
EXIT_CHILD_FAILED == 70

NUL == 0
LF == 10
CR == 13
EQUALS == 61
APOSTROPHE == 39
DQUOTE == 34

(***************************************************************************)
(* Bounds of the model                                                     *)
(***************************************************************************)
\* longest text handed to the tokenizer harness
MaxLen == 3
\* largest -P value tried
MaxProcs == 3

(***************************************************************************)
(* String helpers: the library calls the program makes                     *)
(***************************************************************************)
\* the pattern p occurs in s starting at index i
StartsWithAt(s, i, p) ==
    /\ i + Len(p) - 1 <= Len(s)
    /\ \A k \in 1..Len(p) : s[i + k - 1] = p[k]

\* Python "p in s" (the empty string is in every string)
Contains(s, p) == \E i \in 1..(Len(s) + 1) : StartsWithAt(s, i, p)

RECURSIVE JoinWith(_, _)
\* sep.join(parts)
JoinWith(parts, sep) ==
    IF parts = <<>> THEN <<>>
    ELSE IF Len(parts) = 1 THEN parts[1]
    ELSE parts[1] \o sep \o JoinWith(Tail(parts), sep)

RECURSIVE ReplaceFrom(_, _, _, _)
\* str.replace with a non-empty old: leftmost, non-overlapping, every occurrence
ReplaceFrom(s, i, old, new) ==
    IF i > Len(s) THEN <<>>
    ELSE IF StartsWithAt(s, i, old)
         THEN new \o ReplaceFrom(s, i + Len(old), old, new)
         ELSE <<s[i]>> \o ReplaceFrom(s, i + 1, old, new)

RECURSIVE ReplaceEmpty(_, _, _)
\* str.replace with old = "": new is inserted before every character and at the end
ReplaceEmpty(s, i, new) ==
    IF i > Len(s) THEN new
    ELSE new \o <<s[i]>> \o ReplaceEmpty(s, i + 1, new)

\* str.replace(old, new)
StrReplace(s, old, new) ==
    IF old = <<>> THEN ReplaceEmpty(s, 1, new) ELSE ReplaceFrom(s, 1, old, new)

\* characters shlex.quote leaves alone: [A-Za-z0-9_@%+=:,./-]
SafeChars ==
    (48..57) \cup (65..90) \cup (97..122) \cup {95, 64, 37, 43, 61, 58, 44, 46, 47, 45}

\* shlex.quote
ShlexQuote(s) ==
    IF s = <<>> THEN <<APOSTROPHE, APOSTROPHE>>
    ELSE IF \A k \in 1..Len(s) : s[k] \in SafeChars THEN s
    ELSE <<APOSTROPHE>>
         \o StrReplace(s, <<APOSTROPHE>>,
                       <<APOSTROPHE, DQUOTE, APOSTROPHE, DQUOTE, APOSTROPHE>>)
         \o <<APOSTROPHE>>

\* characters str.splitlines treats as line boundaries
LineBreaks == {LF, CR, 11, 12, 28, 29, 30, 133, 8232, 8233}

\* characters str.strip removes
Whitespace ==
    (9..13) \cup (28..32) \cup {133, 160, 5760, 8232, 8233, 8239, 8287, 12288}
    \cup (8192..8202)

\* length of the line terminator starting at i (\r\n is one terminator), 0 if none
TerminatorLen(text, i) ==
    IF text[i] \notin LineBreaks THEN 0
    ELSE IF text[i] = CR /\ i < Len(text) /\ text[i + 1] = LF THEN 2
    ELSE 1

RECURSIVE SplitLinesFrom(_, _, _)
\* str.splitlines(): no piece after a final terminator, none for the empty text
SplitLinesFrom(text, i, start) ==
    IF i > Len(text)
    THEN IF start <= Len(text) THEN <<SubSeq(text, start, Len(text))>> ELSE <<>>
    ELSE LET n == TerminatorLen(text, i)
         IN  IF n = 0 THEN SplitLinesFrom(text, i + 1, start)
             ELSE <<SubSeq(text, start, i - 1)>> \o SplitLinesFrom(text, i + n, i + n)

\* str.strip()
Strip(s) ==
    LET keep == {k \in 1..Len(s) : s[k] \notin Whitespace}
    IN  IF keep = {} THEN <<>>
        ELSE SubSeq(s, CHOOSE a \in keep : \A b \in keep : a <= b,
                       CHOOSE a \in keep : \A b \in keep : a >= b)

\* a pattern made of the first delimiter only
FirstDelimiterOnly(text, i, delimiters) ==
    IF StartsWithAt(text, i, delimiters[1]) THEN 1 ELSE 0

\* the alternative of the union pattern that matches at i: the first listed one
\* (Python's alternation is ordered, not longest-match); 0 if none matches
FirstAlternative(text, i, delimiters) ==
    LET hits == {j \in 1..Len(delimiters) : StartsWithAt(text, i, delimiters[j])}
    IN  IF hits = {} THEN 0 ELSE CHOOSE j \in hits : \A h \in hits : j <= h

RECURSIVE FindMatches(_, _, _)
\* the successive non-overlapping matches of the compiled pattern, left to right
FindMatches(text, i, delimiters) ==
    IF i > Len(text) THEN <<>>
    ELSE LET j == FirstAlternative(text, i, delimiters)
         IN  IF j = 0 THEN FindMatches(text, i + 1, delimiters)
             ELSE <<[start |-> i, end |-> i + Len(delimiters[j]) - 1]>>
                  \o FindMatches(text, i + Len(delimiters[j]), delimiters)

\* compile_delimiters_regex(delimiters).split(text); delimiters are non-empty
RegexSplit(text, delimiters) ==
    LET m == FindMatches(text, 1, delimiters)
    IN  [k \in 1..(Len(m) + 1) |->
            SubSeq(text,
                   IF k = 1 THEN 1 ELSE m[k - 1].end + 1,
                   IF k = Len(m) + 1 THEN Len(text) ELSE m[k].start - 1)]

\* text.split(sep) with a separator
StrSplit(text, sep) == RegexSplit(text, <<sep>>)

\* text.split("\n"): a final line feed leaves a trailing empty piece
SplitOnLineFeed(text) == StrSplit(text, <<LF>>)

\* text.splitlines()
SplitLines(text) == SplitLinesFrom(text, 1, 1)

\* the split chosen by tokenize_input (an absent -d is the empty sequence)
SplitParts(text, delimiters, use_null) ==
    IF use_null THEN StrSplit(text, <<NUL>>)
    ELSE IF delimiters # <<>> THEN RegexSplit(text, delimiters)
    ELSE SplitLines(text)

\* the filter loop of tokenize_input
FilterParts(parts, keep_empty, strip_ws) ==
    LET toks == [k \in 1..Len(parts) |-> IF strip_ws THEN Strip(parts[k]) ELSE parts[k]]
    IN  SelectSeq(toks, LAMBDA t : ~(t = <<>> /\ ~keep_empty))

tokenize_input(text, delimiters, use_null, keep_empty, strip_ws) ==
    FilterParts(SplitParts(text, delimiters, use_null), keep_empty, strip_ws)

\* an --env item is rejected when it has no "=" or starts with "="
InvalidEnvItem(item) ==
    \/ \A k \in 1..Len(item) : item[k] # EQUALS
    \/ (item # <<>> /\ item[1] = EQUALS)

\* apply_environment raises ValueError
apply_environment_raises(env_kv) ==
    \E k \in 1..Len(env_kv) : InvalidEnvItem(env_kv[k])

build_command(template, placeholder, argument, quote) ==
    StrReplace(template, placeholder, IF quote THEN ShlexQuote(argument) ELSE argument)

\* the sentinel in place of the child's code
AlwaysChildFailed(rc) == EXIT_CHILD_FAILED

\* rc or EXIT_CHILD_FAILED
OrChildFailed(rc) == IF rc # 0 THEN rc ELSE EXIT_CHILD_FAILED

(***************************************************************************)
(* State of one invocation of main()                                       *)
(*                                                                         *)
(* stdin holds the text decode_stdin returns; run_command is a child that  *)
(* exits with one of ExitCodes.  The options --encoding, --errors and      *)
(* --shell do not appear: a decoding error and a shell that cannot be      *)
(* started raise out of main and are not runs in which commands return.    *)
(***************************************************************************)
VARIABLES
    args,          \* the argparse.Namespace
    stdin,         \* decoded contents of standard input
    pc,            \* position of the main thread
    stdinRead,     \* decode_stdin has been called
    tokens,        \* result of tokenize_input
    idx,           \* position of the running for-loop over tokens (1-based)
    built,         \* every string build_command returned, in call order
    stdout,        \* lines printed to standard output
    stderr,        \* lines printed to standard error
    runs,          \* every run_command invocation, in start order
    futures,       \* the futures list of the parallel path
    completed,     \* indices of futures in the order they finished
    snapshot,      \* as_completed: the futures found finished on entry
    waiterQ,       \* as_completed: futures finished since, not yet yielded
    consumed,      \* indices of futures in the order fut.result() was read
    return_code,   \* the accumulator of the parallel path
    result,        \* exit status of the process
    tk,            \* tokenizer harness: inputs
    tkPc,          \* tokenizer harness: position
    tkTokens,      \* tokenizer harness: tokenize_input(text)
    tkJoined,      \* tokenizer harness: tokens joined with one delimiter
    tkTokens2      \* tokenizer harness: tokenize_input(joined)

mainVars ==
    <<args, stdin, pc, stdinRead, tokens, idx, built, stdout, stderr, runs, futures,
      completed, snapshot, waiterQ, consumed, return_code, result>>

tkVars == <<tk, tkPc, tkTokens, tkJoined, tkTokens2>>

vars ==
    <<args, stdin, pc, stdinRead, tokens, idx, built, stdout, stderr, runs, futures,
      completed, snapshot, waiterQ, consumed, return_code, result,
      tk, tkPc, tkTokens, tkJoined, tkTokens2>>

\* value of result while the process is still running
NoResult == -1

(***************************************************************************)
(* Inputs tried                                                            *)
(***************************************************************************)
\* "e{}" and "e"
Commands == { <<101, 123, 125>>, <<101>> }

\* "{}" (the default) and ""
Placeholders == { <<123, 125>>, <<>> }

\* no --env; K=V; =V; K
EnvChoices == { <<>>, << <<75, 61, 86>> >>, << <<61, 86>> >>, << <<75>> >> }

\* "", "a\n", "a\nb\n", "a\n\n'\n", "a\nb\nc"
StdinTexts ==
    { <<>>, <<97, LF>>, <<97, LF, 98, LF>>, <<97, LF, LF, APOSTROPHE, LF>>,
      <<97, LF, 98, LF, 99>> }

\* return codes a child may report
ExitCodes == {0, 2, 3, EXIT_CHILD_FAILED}

ArgSpace ==
    [command : Commands, placeholder : Placeholders, delimiter : {<<>>},
     null : {FALSE}, strip : {FALSE}, keep_empty : BOOLEAN,
     max_procs : 0..MaxProcs, no_stdin : BOOLEAN, dry_run : BOOLEAN,
     trace : BOOLEAN, no_quote : BOOLEAN, env : EnvChoices]

TkIdle ==
    /\ tk = [text |-> <<>>, delimiters |-> <<>>, use_null |-> FALSE,
             keep_empty |-> FALSE, strip_ws |-> FALSE, joiner |-> <<>>]
    /\ tkPc = "idle"
    /\ tkTokens = <<>>
    /\ tkJoined = <<>>
    /\ tkTokens2 = <<>>

MainStart ==
    /\ pc = "parse_args"
    /\ stdinRead = FALSE
    /\ tokens = <<>>
    /\ idx = 1
    /\ built = <<>>
    /\ stdout = <<>>
    /\ stderr = <<>>
    /\ runs = <<>>
    /\ futures = <<>>
    /\ completed = <<>>
    /\ snapshot = {}
    /\ waiterQ = <<>>
    /\ consumed = <<>>
    /\ return_code = EXIT_OK
    /\ result = NoResult

Init ==
    /\ args \in ArgSpace
    /\ stdin \in StdinTexts
    /\ MainStart
    /\ TkIdle

(***************************************************************************)
(* parse_args and the head of main                                         *)
(***************************************************************************)
\* raise SystemExit(code) after eprint
SystemExit(code, what) ==
    /\ stderr' = Append(stderr, [kind |-> "ERROR", text |-> what])
    /\ result' = code
    /\ pc' = "exit"

\* the validation without the guard on -P > 1 and --no-stdin
parse_args_WithoutStdinGuard ==
    /\ pc = "parse_args"
    /\ IF ~Contains(args.command, args.placeholder)
       THEN SystemExit(EXIT_NO_PLACEHOLDER, args.placeholder)
       ELSE IF apply_environment_raises(args.env)
       THEN SystemExit(EXIT_BAD_ENV, <<>>)
       ELSE /\ pc' = "ingest"
            /\ UNCHANGED <<stderr, result>>
    /\ UNCHANGED <<args, stdin, stdinRead, tokens, idx, built, stdout, runs, futures,
                   completed, snapshot, waiterQ, consumed, return_code>>
    /\ UNCHANGED tkVars

\* the validation at the end of parse_args
parse_args ==
    /\ pc = "parse_args"
    /\ IF ~Contains(args.command, args.placeholder)
       THEN SystemExit(EXIT_NO_PLACEHOLDER, args.placeholder)
       ELSE IF apply_environment_raises(args.env)
       THEN SystemExit(EXIT_BAD_ENV, <<>>)
       ELSE IF args.max_procs > 1 /\ ~args.no_stdin
       THEN SystemExit(EXIT_NEEDS_NO_STDIN_FOR_PAR, <<>>)
       ELSE /\ pc' = "ingest"
            /\ UNCHANGED <<stderr, result>>
    /\ UNCHANGED <<args, stdin, stdinRead, tokens, idx, built, stdout, runs, futures,
                   completed, snapshot, waiterQ, consumed, return_code>>
    /\ UNCHANGED tkVars

\* the same with the parallel path chosen before dry_run is looked at
IngestParallelBeforeDryRun ==
    /\ pc = "ingest"
    /\ stdinRead' = TRUE
    /\ tokens' = tokenize_input(stdin, args.delimiter, args.null,
                                args.keep_empty, args.strip)
    /\ IF tokens' = <<>>
       THEN /\ result' = EXIT_OK
            /\ pc' = "exit"
       ELSE /\ result' = result
            /\ pc' = IF args.max_procs > 1 THEN "submit"
                     ELSE IF args.dry_run THEN "dry_run"
                     ELSE "sequential"
    /\ UNCHANGED <<args, stdin, idx, built, stdout, stderr, runs, futures,
                   completed, snapshot, waiterQ, consumed, return_code>>
    /\ UNCHANGED tkVars

\* decode_stdin, tokenize_input, the empty short-circuit and the choice of path
Ingest ==
    /\ pc = "ingest"
    /\ stdinRead' = TRUE
    /\ tokens' = tokenize_input(stdin, args.delimiter, args.null,
                                args.keep_empty, args.strip)
    /\ IF tokens' = <<>>
       THEN /\ result' = EXIT_OK
            /\ pc' = "exit"
       ELSE /\ result' = result
            /\ pc' = IF args.dry_run THEN "dry_run"
                     ELSE IF args.max_procs <= 1 THEN "sequential"
                     ELSE "submit"
    /\ UNCHANGED <<args, stdin, idx, built, stdout, stderr, runs, futures,
                   completed, snapshot, waiterQ, consumed, return_code>>
    /\ UNCHANGED tkVars

\* the command main builds for the token at position k
CommandFor(k) ==
    build_command(args.command, args.placeholder, tokens[k], ~args.no_quote)

\* what run_command writes to stderr before running: "+ " and the command
TraceLines(cmd) ==
    IF args.trace THEN <<[kind |-> "TRACE", text |-> <<43, 32>> \o cmd]>> ELSE <<>>

(***************************************************************************)
(* Dry run                                                                 *)
(***************************************************************************)
DryRunStep ==
    /\ pc = "dry_run"
    /\ idx <= Len(tokens)
    /\ built' = Append(built, CommandFor(idx))
    /\ stdout' = Append(stdout, CommandFor(idx))
    /\ idx' = idx + 1
    /\ UNCHANGED <<args, stdin, pc, stdinRead, tokens, stderr, runs, futures,
                   completed, snapshot, waiterQ, consumed, return_code, result>>
    /\ UNCHANGED tkVars

DryRunReturn ==
    /\ pc = "dry_run"
    /\ idx > Len(tokens)
    /\ result' = EXIT_OK
    /\ pc' = "exit"
    /\ UNCHANGED <<args, stdin, stdinRead, tokens, idx, built, stdout, stderr, runs,
                   futures, completed, snapshot, waiterQ, consumed, return_code>>
    /\ UNCHANGED tkVars

(***************************************************************************)
(* Sequential path                                                         *)
(***************************************************************************)
\* the loop with the return lost: a failing command does not stop the run
SequentialFailureIgnored(rc) ==
    /\ idx' = idx + 1
    /\ UNCHANGED <<pc, result>>

\* the return statement under "if rc != 0" in the sequential loop
SequentialFailure(rc) ==
    /\ result' = OrChildFailed(rc)
    /\ pc' = "exit"
    /\ idx' = idx

\* one iteration: build, run, look at the return code
SequentialStep ==
    /\ pc = "sequential"
    /\ idx <= Len(tokens)
    /\ \E rc \in ExitCodes :
        /\ built' = Append(built, CommandFor(idx))
        /\ stderr' = stderr \o TraceLines(CommandFor(idx))
        /\ runs' = Append(runs, [tok |-> idx, cmd |-> CommandFor(idx), rc |-> rc])
        /\ IF rc # 0
           THEN SequentialFailure(rc)
           ELSE /\ idx' = idx + 1
                /\ UNCHANGED <<pc, result>>
    /\ UNCHANGED <<args, stdin, stdinRead, tokens, stdout, futures,
                   completed, snapshot, waiterQ, consumed, return_code>>
    /\ UNCHANGED tkVars

SequentialReturn ==
    /\ pc = "sequential"
    /\ idx > Len(tokens)
    /\ result' = EXIT_OK
    /\ pc' = "exit"
    /\ UNCHANGED <<args, stdin, stdinRead, tokens, idx, built, stdout, stderr, runs,
                   futures, completed, snapshot, waiterQ, consumed, return_code>>
    /\ UNCHANGED tkVars

(***************************************************************************)
(* Parallel path: ThreadPoolExecutor(max_workers = args.max_procs)         *)
(***************************************************************************)
Running == {k \in 1..Len(futures) : futures[k].state = "RUNNING"}

Finished == {k \in 1..Len(futures) : futures[k].state = "FINISHED"}

Consumed == {consumed[n] : n \in 1..Len(consumed)}

\* a submission loop that passes over empty tokens
SubmitSkipsEmpty ==
    /\ pc = "submit"
    /\ idx <= Len(tokens)
    /\ IF tokens[idx] = <<>>
       THEN UNCHANGED <<built, futures>>
       ELSE /\ built' = Append(built, CommandFor(idx))
            /\ futures' = Append(futures, [cmd |-> CommandFor(idx), state |-> "PENDING",
                                          rc |-> NoResult])
    /\ idx' = idx + 1
    /\ UNCHANGED <<args, stdin, pc, stdinRead, tokens, stdout, stderr, runs,
                   completed, snapshot, waiterQ, consumed, return_code, result>>
    /\ UNCHANGED tkVars

\* one iteration of the submission loop: build the command, submit run_command
Submit ==
    /\ pc = "submit"
    /\ idx <= Len(tokens)
    /\ built' = Append(built, CommandFor(idx))
    /\ futures' = Append(futures, [cmd |-> CommandFor(idx), state |-> "PENDING",
                                  rc |-> NoResult])
    /\ idx' = idx + 1
    /\ UNCHANGED <<args, stdin, pc, stdinRead, tokens, stdout, stderr, runs,
                   completed, snapshot, waiterQ, consumed, return_code, result>>
    /\ UNCHANGED tkVars

\* a free worker takes the oldest queued work item and enters run_command
WorkerStart ==
    /\ pc \in {"submit", "collect"}
    /\ Cardinality(Running) < args.max_procs
    /\ \E k \in 1..Len(futures) :
        /\ futures[k].state = "PENDING"
        /\ \A j \in 1..(k - 1) : futures[j].state # "PENDING"
        /\ futures' = [futures EXCEPT ![k].state = "RUNNING"]
        /\ stderr' = stderr \o TraceLines(futures[k].cmd)
        /\ runs' = Append(runs, [tok |-> k, cmd |-> futures[k].cmd, rc |-> NoResult])
    /\ UNCHANGED <<args, stdin, pc, stdinRead, tokens, idx, built, stdout,
                   completed, snapshot, waiterQ, consumed, return_code, result>>
    /\ UNCHANGED tkVars

\* a child exits: run_command returns and the future gets its result; a waiter
\* installed by as_completed is told
WorkerFinish ==
    /\ \E k \in Running, rc \in ExitCodes :
        /\ futures' = [futures EXCEPT ![k].state = "FINISHED", ![k].rc = rc]
        /\ runs' = [n \in 1..Len(runs) |->
                        IF runs[n].tok = k THEN [runs[n] EXCEPT !.rc = rc] ELSE runs[n]]
        /\ completed' = Append(completed, k)
        /\ waiterQ' = IF pc = "collect" THEN Append(waiterQ, k) ELSE waiterQ
    /\ UNCHANGED <<args, stdin, pc, stdinRead, tokens, idx, built, stdout, stderr,
                   snapshot, consumed, return_code, result>>
    /\ UNCHANGED tkVars

\* as_completed(futures) is entered: the futures already finished are set aside
\* (in a set), a waiter is installed on the others
AsCompleted ==
    /\ pc = "submit"
    /\ idx > Len(tokens)
    /\ snapshot' = Finished
    /\ pc' = "collect"
    /\ UNCHANGED <<args, stdin, stdinRead, tokens, idx, built, stdout, stderr, runs,
                   futures, completed, waiterQ, consumed, return_code, result>>
    /\ UNCHANGED tkVars

\* the loop body without "and return_code == EXIT_OK": the last failure wins
AggregateLastFailure(k) ==
    /\ consumed' = Append(consumed, k)
    /\ return_code' =
          IF futures[k].rc # 0 THEN OrChildFailed(futures[k].rc) ELSE return_code

\* the body of the collection loop for the future at position k
Aggregate(k) ==
    /\ consumed' = Append(consumed, k)
    /\ return_code' =
          IF futures[k].rc # 0 /\ return_code = EXIT_OK
          THEN OrChildFailed(futures[k].rc)
          ELSE return_code

\* as_completed yields a future that had finished before it was entered: these
\* come out of a set, in no particular order
YieldFinished ==
    /\ pc = "collect"
    /\ \E k \in snapshot \ Consumed : Aggregate(k)
    /\ UNCHANGED <<args, stdin, pc, stdinRead, tokens, idx, built, stdout, stderr, runs,
                   futures, completed, snapshot, waiterQ, result>>
    /\ UNCHANGED tkVars

\* as_completed yields the futures that finish later in their finishing order
YieldCompleted ==
    /\ pc = "collect"
    /\ snapshot \subseteq Consumed
    /\ waiterQ # <<>>
    /\ waiterQ' = Tail(waiterQ)
    /\ Aggregate(Head(waiterQ))
    /\ UNCHANGED <<args, stdin, pc, stdinRead, tokens, idx, built, stdout, stderr, runs,
                   futures, completed, snapshot, result>>
    /\ UNCHANGED tkVars

\* a fail-fast return: the first failure ends the run, queued work is dropped
ParallelReturnOnFirstFailure ==
    /\ pc = "collect"
    /\ return_code # EXIT_OK \/ Len(consumed) = Len(futures)
    /\ result' = return_code
    /\ pc' = "exit"
    /\ UNCHANGED <<args, stdin, stdinRead, tokens, idx, built, stdout, stderr, runs,
                   futures, completed, snapshot, waiterQ, consumed, return_code>>
    /\ UNCHANGED tkVars

\* as_completed is exhausted; leaving the with block waits for the workers
\* (shutdown(wait=True)); return return_code
ParallelReturn ==
    /\ pc = "collect"
    /\ Len(consumed) = Len(futures)
    /\ Finished = 1..Len(futures)
    /\ result' = return_code
    /\ pc' = "exit"
    /\ UNCHANGED <<args, stdin, stdinRead, tokens, idx, built, stdout, stderr, runs,
                   futures, completed, snapshot, waiterQ, consumed, return_code>>
    /\ UNCHANGED tkVars

Next ==
    \/ parse_args
    \/ Ingest
    \/ DryRunStep
    \/ DryRunReturn
    \/ SequentialStep
    \/ SequentialReturn
    \/ Submit
    \/ WorkerStart
    \/ WorkerFinish
    \/ AsCompleted
    \/ YieldFinished
    \/ YieldCompleted
    \/ ParallelReturn

Spec == Init /\ [][Next]_vars

(***************************************************************************)
(* Tokenizer harness: tokenize_input applied to every short text, then the *)
(* tokens joined with one of the delimiters and tokenized again            *)
(***************************************************************************)
\* a, b, line feed, carriage return, NUL
TkAlphabet == {97, 98, LF, CR, NUL}

TkTexts == UNION {[1..n -> TkAlphabet] : n \in 0..MaxLen}

\* no -d; b; a,b; ab,b; a,ab; ab; line feed
TkDelimiterChoices ==
    { <<>>, << <<98>> >>, << <<97>>, <<98>> >>, << <<97, 98>>, <<98>> >>,
      << <<97>>, <<97, 98>> >>, << <<97, 98>> >>, << <<LF>> >> }

TkInputs ==
    {t \in [text : TkTexts, delimiters : TkDelimiterChoices, use_null : BOOLEAN,
            keep_empty : BOOLEAN, strip_ws : BOOLEAN,
            joiner : {<<>>, <<97>>, <<98>>, <<97, 98>>, <<LF>>}] :
        IF t.delimiters = <<>> THEN t.joiner = <<>>
        ELSE \E j \in 1..Len(t.delimiters) : t.joiner = t.delimiters[j]}

MainIdle ==
    /\ args = [command |-> <<101, 123, 125>>, placeholder |-> <<123, 125>>,
               delimiter |-> <<>>, null |-> FALSE, strip |-> FALSE,
               keep_empty |-> FALSE, max_procs |-> 1, no_stdin |-> FALSE,
               dry_run |-> FALSE, trace |-> FALSE, no_quote |-> FALSE, env |-> <<>>]
    /\ stdin = <<>>
    /\ pc = "idle"
    /\ stdinRead = FALSE
    /\ tokens = <<>>
    /\ idx = 1
    /\ built = <<>>
    /\ stdout = <<>>
    /\ stderr = <<>>
    /\ runs = <<>>
    /\ futures = <<>>
    /\ completed = <<>>
    /\ snapshot = {}
    /\ waiterQ = <<>>
    /\ consumed = <<>>
    /\ return_code = EXIT_OK
    /\ result = NoResult

TkInit ==
    /\ MainIdle
    /\ tk \in TkInputs
    /\ tkPc = "tokenize"
    /\ tkTokens = <<>>
    /\ tkJoined = <<>>
    /\ tkTokens2 = <<>>

TkTokenize ==
    /\ tkPc = "tokenize"
    /\ tkTokens' = tokenize_input(tk.text, tk.delimiters, tk.use_null,
                                  tk.keep_empty, tk.strip_ws)
    /\ tkPc' = "join"
    /\ UNCHANGED <<tk, tkJoined, tkTokens2>>
    /\ UNCHANGED mainVars

TkJoin ==
    /\ tkPc = "join"
    /\ tk.delimiters # <<>>
    /\ tkJoined' = JoinWith(tkTokens, tk.joiner)
    /\ tkPc' = "retokenize"
    /\ UNCHANGED <<tk, tkTokens, tkTokens2>>
    /\ UNCHANGED mainVars

TkRetokenize ==
    /\ tkPc = "retokenize"
    /\ tkTokens2' = tokenize_input(tkJoined, tk.delimiters, tk.use_null,
                                   tk.keep_empty, tk.strip_ws)
    /\ tkPc' = "done"
    /\ UNCHANGED <<tk, tkTokens, tkJoined>>
    /\ UNCHANGED mainVars

TkNext ==
    \/ TkTokenize
    \/ TkJoin
    \/ TkRetokenize

TokSpec == TkInit /\ [][TkNext]_vars

(***************************************************************************)
(* Vocabulary of the properties                                            *)
(***************************************************************************)
\* main has returned or raised SystemExit
Exited == pc = "exit"

\* main got past parse_args and finished
Finished_Run == Exited /\ stdinRead

SequentialMode == ~args.dry_run /\ args.max_procs <= 1

ParallelMode == ~args.dry_run /\ args.max_procs > 1

\* the command the run builds for the token at position k
Expected(k) ==
    StrReplace(args.command, args.placeholder,
               IF args.no_quote THEN tokens[k] ELSE ShlexQuote(tokens[k]))

\* positions in runs of the children that returned non-zero
FailedRuns == {n \in 1..Len(runs) : runs[n].rc \notin {0, NoResult}}

\* return codes of the children that have returned
ChildCodes == {runs[n].rc : n \in 1..Len(runs)} \ {NoResult}

\* number of run_command invocations for the token at position k
RunCount(k) == Cardinality({n \in 1..Len(runs) : runs[n].tok = k})

\* return code of the future at position k
RcOf(k) == futures[k].rc

\* the first non-zero return code met when the futures are visited in order, else 0
FirstNonZero(order) ==
    LET nz == {n \in 1..Len(order) : RcOf(order[n]) # 0}
    IN  IF nz = {} THEN 0
        ELSE RcOf(order[CHOOSE n \in nz : \A m \in nz : n <= m])

NoTraceLines == \A n \in 1..Len(stderr) : stderr[n].kind # "TRACE"

(***************************************************************************)
(* C1  Sequential mode: commands are built and run strictly in token       *)
(* order; nothing is built or run after a command returned non-zero; the   *)
(* result is that non-zero code; if every command returns 0 all tokens are *)
(* run and the result is 0.                                                *)
(***************************************************************************)
C1_SequentialStopsAtFirstFailure ==
    SequentialMode =>
        /\ Len(built) = Len(runs)
        /\ Len(runs) <= Len(tokens)
        /\ futures = <<>>
        /\ \A k \in 1..Len(runs) :
              /\ runs[k].tok = k
              /\ runs[k].cmd = Expected(k)
              /\ built[k] = Expected(k)
        /\ \A k \in 1..(Len(runs) - 1) : runs[k].rc = 0
        /\ Finished_Run =>
              IF FailedRuns # {}
              THEN result = runs[Len(runs)].rc /\ result # 0
              ELSE Len(runs) = Len(tokens) /\ result = 0

\* tokens a, b, c: the command for b returns 2, c is never built or run
C1_Witness ==
    /\ SequentialMode
    /\ Finished_Run
    /\ Len(tokens) = 3
    /\ Len(runs) = 2
    /\ Len(built) = 2
    /\ runs[2].rc = 2
    /\ result = 2

(***************************************************************************)
(* C2  Parallel mode: every token's command is built and executed exactly  *)
(* once and runs to completion whatever the other commands return, and the *)
(* result is not reported before all submitted commands have finished.     *)
(***************************************************************************)
C2_ParallelRunsEveryTokenOnce ==
    ParallelMode =>
        /\ Len(built) = Len(futures)
        /\ Cardinality(Running) <= args.max_procs
        /\ \A k \in 1..Len(futures) :
              /\ built[k] = Expected(k)
              /\ futures[k].cmd = Expected(k)
              /\ RunCount(k) = IF futures[k].state = "PENDING" THEN 0 ELSE 1
        /\ \A n \in 1..Len(runs) : runs[n].cmd = Expected(runs[n].tok)
        /\ Finished_Run =>
              /\ Len(futures) = Len(tokens)
              /\ \A k \in 1..Len(tokens) :
                    /\ futures[k].state = "FINISHED"
                    /\ RunCount(k) = 1

\* three tokens whose commands all fail, all three were run
C2_Witness ==
    /\ ParallelMode
    /\ Finished_Run
    /\ Len(tokens) = 3
    /\ Len(runs) = 3
    /\ \A k \in 1..3 : futures[k].state = "FINISHED" /\ RcOf(k) # 0

(***************************************************************************)
(* C3  Parallel mode, as claimed: results are consumed in completion       *)
(* order, so the result is the first non-zero return code in completion    *)
(* order (0 if there is none).                                             *)
(***************************************************************************)
C3_FirstNonZeroInCompletionOrder ==
    (ParallelMode /\ Finished_Run) => result = FirstNonZero(completed)

(***************************************************************************)
(* C3  Parallel mode, as amended: the futures already finished when        *)
(* collection starts are consumed first, in no guaranteed order, the       *)
(* others after them in completion order; the result is the first non-zero *)
(* return code in the order of consumption, and it is 0 exactly when every *)
(* command returned 0.                                                     *)
(***************************************************************************)
C3_FirstNonZeroInConsumptionOrder ==
    (ParallelMode /\ Finished_Run) =>
        /\ Len(consumed) = Len(futures)
        /\ Consumed = 1..Len(futures)
        /\ {consumed[n] : n \in 1..Cardinality(snapshot)} = snapshot
        /\ {completed[n] : n \in 1..Cardinality(snapshot)} = snapshot
        /\ \A n \in (Cardinality(snapshot) + 1)..Len(consumed) :
              consumed[n] = completed[n]
        /\ result = FirstNonZero(consumed)
        /\ (result = 0) <=> (\A k \in 1..Len(futures) : RcOf(k) = 0)

\* two commands failed with different codes before collection started, and the
\* one that finished second was consumed first and decided the result
C3_Witness ==
    /\ ParallelMode
    /\ Finished_Run
    /\ Len(completed) >= 2
    /\ {completed[1], completed[2]} \subseteq snapshot
    /\ RcOf(completed[1]) = 2
    /\ RcOf(completed[2]) = 3
    /\ consumed[1] = completed[2]
    /\ result = 3

(***************************************************************************)
(* C4  As claimed: in every finished run that executes commands, the       *)
(* number of built commands and the number of Process Runner invocations   *)
(* both equal the number of tokens.                                        *)
(***************************************************************************)
C4_BuiltEqualsTokensEqualsRuns ==
    (Finished_Run /\ ~args.dry_run) =>
        /\ Len(built) = Len(tokens)
        /\ Len(runs) = Len(tokens)

(***************************************************************************)
(* C4  As amended: in every finished run that executes commands, the       *)
(* built commands are those of a prefix of the token sequence, in token    *)
(* order, each run exactly once; the prefix is the whole sequence in       *)
(* parallel mode and in a sequential run where no command failed, and ends *)
(* at the first failing token in a sequential run where one failed.        *)
(***************************************************************************)
C4_BuiltEqualsRunsPrefixOfTokens ==
    (Finished_Run /\ ~args.dry_run) =>
        /\ Len(built) = Len(runs)
        /\ Len(built) <= Len(tokens)
        /\ \A k \in 1..Len(built) : built[k] = Expected(k) /\ RunCount(k) = 1
        /\ (ParallelMode \/ result = 0) => Len(built) = Len(tokens)
        /\ (SequentialMode /\ result # 0) =>
              /\ FailedRuns = {Len(runs)}
              /\ runs[Len(runs)].tok = Len(built)

\* a sequential run over three tokens that stopped at the second
C4_Witness ==
    /\ Finished_Run
    /\ SequentialMode
    /\ Len(tokens) = 3
    /\ Len(built) = 2
    /\ Len(runs) = 2
    /\ result # 0

(***************************************************************************)
(* C5  A configuration error (placeholder not in the command, malformed    *)
(* --env item, -P > 1 without --no-stdin) ends the run with 65, 66 or 67   *)
(* (the first failing check, in that order, decides), never 0 or 70,       *)
(* before stdin is read and before any token is produced or any command    *)
(* built, printed or executed.                                             *)
(***************************************************************************)
C5_ConfigErrorsBeforeAnyWork ==
    LET noPlaceholder ==
            \A i \in 1..(Len(args.command) - Len(args.placeholder) + 1) :
                SubSeq(args.command, i, i + Len(args.placeholder) - 1)
                    # args.placeholder
        badEnv ==
            \E n \in 1..Len(args.env) :
                \/ EQUALS \notin {args.env[n][k] : k \in 1..Len(args.env[n])}
                \/ (args.env[n] # <<>> /\ Head(args.env[n]) = EQUALS)
        needsNoStdin == args.max_procs > 1 /\ ~args.no_stdin
    IN  (noPlaceholder \/ badEnv \/ needsNoStdin) =>
            /\ pc \in {"parse_args", "exit"}
            /\ ~stdinRead
            /\ tokens = <<>>
            /\ built = <<>>
            /\ stdout = <<>>
            /\ runs = <<>>
            /\ futures = <<>>
            /\ NoTraceLines
            /\ Exited =>
                  /\ result = IF noPlaceholder THEN EXIT_NO_PLACEHOLDER
                              ELSE IF badEnv THEN EXIT_BAD_ENV
                              ELSE EXIT_NEEDS_NO_STDIN_FOR_PAR
                  /\ result \in {65, 66, 67}
                  /\ result \notin {EXIT_OK, EXIT_CHILD_FAILED}
                  /\ Len(stderr) = 1

\* -P 2 without --no-stdin, nothing else wrong: rejected with 67
C5_Witness ==
    /\ Exited
    /\ args.max_procs > 1
    /\ ~args.no_stdin
    /\ result = EXIT_NEEDS_NO_STDIN_FOR_PAR
    /\ stdin # <<>>
    /\ ~stdinRead

(***************************************************************************)
(* C6  Dry run, for every degree of parallelism: run_command is never      *)
(* invoked, each built command is printed exactly once, one per line, in   *)
(* token order, and the result is 0.                                       *)
(***************************************************************************)
C6_DryRunPrintsAndRunsNothing ==
    args.dry_run =>
        /\ runs = <<>>
        /\ futures = <<>>
        /\ NoTraceLines
        /\ stdout = built
        /\ Len(stdout) <= Len(tokens)
        /\ \A k \in 1..Len(stdout) : stdout[k] = Expected(k)
        /\ Finished_Run => (Len(stdout) = Len(tokens) /\ result = EXIT_OK)

\* -P 3 --dry-run on "e{}" with three tokens: three lines, the first is "ea"
C6_Witness ==
    /\ args.dry_run
    /\ args.max_procs > 1
    /\ Finished_Run
    /\ Len(tokens) = 3
    /\ Len(stdout) = 3
    /\ stdout[1] = <<101, 97>>
    /\ result = EXIT_OK

(***************************************************************************)
(* Vocabulary of the tokenizer properties                                  *)
(***************************************************************************)
Tokenized == tkPc # "tokenize"

TkNullStrategy == tk.use_null

TkDelimiterStrategy == ~tk.use_null /\ tk.delimiters # <<>>

TkLineStrategy == ~tk.use_null /\ tk.delimiters = <<>>

\* occurrences of the delimiter the split is made on
TkOccurrences ==
    IF TkNullStrategy THEN {[start |-> i, end |-> i] : i \in {j \in 1..Len(tk.text) : tk.text[j] = NUL}}
    ELSE {m \in [start : 1..Len(tk.text), end : 1..Len(tk.text)] :
            \E n \in 1..Len(FindMatches(tk.text, 1, tk.delimiters)) :
                FindMatches(tk.text, 1, tk.delimiters)[n] = m}

\* line terminators of the text, \r\n counted once
TkTerminators ==
    {i \in 1..Len(tk.text) :
        /\ tk.text[i] \in LineBreaks
        /\ ~(tk.text[i] = LF /\ i > 1 /\ tk.text[i - 1] = CR)}

\* the text ends in a delimiter occurrence (NUL or literal delimiter strategy)
TkEndsInDelimiter == \E m \in TkOccurrences : m.end = Len(tk.text)

\* the text ends in a line terminator
TkEndsInTerminator == tk.text # <<>> /\ tk.text[Len(tk.text)] \in LineBreaks

NoEmptyToken == \A k \in 1..Len(tkTokens) : tkTokens[k] # <<>>

EndsWithEmptyToken == tkTokens # <<>> /\ tkTokens[Len(tkTokens)] = <<>>

(***************************************************************************)
(* C7  As claimed: in all three strategies a text ending in a delimiter or *)
(* line terminator gives a trailing empty piece: with keep_empty the       *)
(* output ends with an empty token, without it no token is empty.          *)
(***************************************************************************)
C7_TrailingEmptyPieceInEveryStrategy ==
    (Tokenized
        /\ \/ (TkNullStrategy \/ TkDelimiterStrategy) /\ TkEndsInDelimiter
           \/ TkLineStrategy /\ TkEndsInTerminator) =>
        IF tk.keep_empty THEN EndsWithEmptyToken ELSE NoEmptyToken

(***************************************************************************)
(* C7  As amended: without keep_empty no token is empty.  With keep_empty, *)
(* the NUL and literal-delimiter strategies give one more token than there *)
(* are delimiter occurrences, so a text ending in one ends with an empty   *)
(* token; the default line strategy does special-case the end of the text: *)
(* a final line terminator gives no trailing piece, and there are exactly  *)
(* as many tokens as line terminators.                                     *)
(***************************************************************************)
C7_TrailingEmptyPieceExceptLines ==
    Tokenized =>
        /\ ~tk.keep_empty => NoEmptyToken
        /\ (tk.keep_empty /\ ~TkLineStrategy) =>
              /\ Len(tkTokens) = Cardinality(TkOccurrences) + 1
              /\ TkEndsInDelimiter => EndsWithEmptyToken
        /\ (tk.keep_empty /\ TkLineStrategy) =>
              /\ Len(tkTokens) = Cardinality(TkTerminators)
                                 + (IF tk.text = <<>> \/ TkEndsInTerminator THEN 0 ELSE 1)
              /\ (TkEndsInTerminator /\ Len(tk.text) > 1
                    /\ tk.text[Len(tk.text) - 1] \notin Whitespace)
                 => ~EndsWithEmptyToken

\* "a\n" by lines with keep_empty is the single token "a"; no empty token follows
C7_Witness ==
    /\ Tokenized
    /\ TkLineStrategy
    /\ tk.keep_empty
    /\ tk.text = <<97, LF>>
    /\ tkTokens = << <<97>> >>

(***************************************************************************)
(* C8  As claimed: with keep_empty (no NUL mode, no stripping), for every  *)
(* set of literal delimiters and every delimiter d of the set, tokenizing  *)
(* a text, joining the tokens with d and tokenizing again gives the same   *)
(* tokens.                                                                 *)
(***************************************************************************)
C8_ResplitIdempotent ==
    (tkPc = "done" /\ tk.keep_empty /\ ~tk.use_null /\ ~tk.strip_ws) =>
        tkTokens2 = tkTokens

(***************************************************************************)
(* C8  As amended: the same, for a set that has a single delimiter or      *)
(* whose delimiters are all single characters.                             *)
(***************************************************************************)
C8_ResplitIdempotentSimpleDelimiters ==
    (tkPc = "done" /\ tk.keep_empty /\ ~tk.use_null /\ ~tk.strip_ws
        /\ \/ Len(tk.delimiters) = 1
           \/ \A j \in 1..Len(tk.delimiters) : Len(tk.delimiters[j]) = 1) =>
        tkTokens2 = tkTokens

\* "aba" split on a or b gives four empty tokens, joined with b and split again
C8_Witness ==
    /\ tkPc = "done"
    /\ tk.keep_empty
    /\ ~tk.use_null
    /\ ~tk.strip_ws
    /\ tk.delimiters = << <<97>>, <<98>> >>
    /\ tk.joiner = <<98>>
    /\ tk.text = <<97, 98, 97>>
    /\ tkJoined = <<98, 98, 98>>
    /\ Len(tkTokens2) = 4

(***************************************************************************)
(* C9  A run reads its input and builds commands only if the placeholder   *)
(* is a non-empty string that occurs in the command template;              *)
(* build_command is never called with an empty placeholder.                *)
(***************************************************************************)
C9_PlaceholderNonEmpty ==
    (stdinRead \/ built # <<>>) =>
        /\ args.placeholder # <<>>
        /\ \E i \in 1..Len(args.command) :
              SubSeq(args.command, i, i + Len(args.placeholder) - 1) = args.placeholder

(***************************************************************************)
(* C10  After executing commands the value main returns is 0 or the return *)
(* code of one of the executed children: 70 is never put in place of a     *)
(* child's code, and the result is non-zero as soon as a child failed.     *)
(***************************************************************************)
C10_ResultIsAChildCode ==
    (Finished_Run /\ ~args.dry_run) =>
        /\ result = 0 \/ result \in ChildCodes
        /\ result = EXIT_CHILD_FAILED => EXIT_CHILD_FAILED \in ChildCodes
        /\ (ChildCodes \ {0} # {}) => result # 0
        /\ SequentialMode /\ runs # <<>> /\ runs[Len(runs)].rc # 0
              => result = runs[Len(runs)].rc
        /\ ParallelMode /\ consumed # <<>> /\ RcOf(consumed[1]) # 0
              => result = RcOf(consumed[1])

\* a child returned 2 and that, not 70, is the result
C10_Witness ==
    /\ Finished_Run
    /\ ~args.dry_run
    /\ result = 2
    /\ 2 \in ChildCodes
    /\ EXIT_CHILD_FAILED \notin ChildCodes

====
